---- MODULE Spec2Model ----
(***************************************************************************)
(* A model of cdzombak/runner: main() resolves the run policy from the     *)
(* command line, runner() executes the child program with retries and      *)
(* builds the report, and main() prints it and writes the log file.        *)
(*                                                                         *)
(* Text is modelled as a sequence of tokens (strings); a child's output is *)
(* a sequence of one-character tokens, so that strings.Contains is a real  *)
(* substring search.  Time is a clock in whole seconds.                    *)
(***************************************************************************)
EXTENDS Integers, Sequences, FiniteSets, TLC

(* ------------------------------ bounds -------------------------------- *)

\* Largest value of -retries that is explored.
MaxRetries == 2

(* --------------------------- input domains ---------------------------- *)

\* -retries is a flag.Int: any integer is accepted, negative ones included.
RetryValues == -1 .. MaxRetries

\* -retry-delay is a flag.Int (seconds).
RetryDelayValues == {0, 2}

\* The values given to -healthy-exit, in command-line order.
HealthyExitArgs == { <<>>, <<"0">>, <<"1">>, <<"x">>, <<"0", "1">> }

\* The values given to -print-if-match / -print-if-not-match.
PatternLists == { <<>>, << <<"a", "b">> >>, << <<"a">>, <<"b">> >> }

\* What a child that was launched may write, and how it may exit.
ChildOutputs == { <<>>, <<"b">>, <<"a", "b">> }
ChildExitCodes == {0, 1}

\* One execution of the child: either it could not be launched at all
\* (CombinedOutput returns a non-ExitError and ProcessState stays nil), or
\* it ran, wrote `out` and exited with `code`.
ChildResults ==
    { [launched |-> FALSE, code |-> 0, out |-> <<>>] }
        \cup [launched : {TRUE}, code : ChildExitCodes, out : ChildOutputs]

\* Seconds a child execution takes on the clock.
ChildDuration == 1

(* ------------------------------ helpers ------------------------------- *)

\* strconv.Atoi on the flag values of the input domain.
Atoi(value) ==
    CASE value = "0" -> [err |-> FALSE, val |-> 0]
      [] value = "1" -> [err |-> FALSE, val |-> 1]
      [] value = "-1" -> [err |-> FALSE, val |-> -1]
      [] OTHER -> [err |-> TRUE, val |-> 0]

\* (*IntSlice).Set: an unparseable value is stored as -1.
IntSliceSet(slice, value) ==
    IF Atoi(value).err THEN Append(slice, -1) ELSE Append(slice, Atoi(value).val)

\* flag.Parse calling Set once per -healthy-exit occurrence, in order.
RECURSIVE ParseHealthyExit(_, _)
ParseHealthyExit(slice, args) ==
    IF args = <<>> THEN slice
    ELSE ParseHealthyExit(IntSliceSet(slice, Head(args)), Tail(args))

\* strings.HasPrefix on token sequences.
HasPrefix(s, prefix) ==
    /\ Len(prefix) <= Len(s)
    /\ SubSeq(s, 1, Len(prefix)) = prefix

\* strings.Contains: scan the start positions left to right.
RECURSIVE Contains(_, _)
Contains(s, substr) ==
    IF Len(substr) > Len(s) THEN FALSE
    ELSE IF HasPrefix(s, substr) THEN TRUE
    ELSE Contains(Tail(s), substr)

\* The loop `for _, v := range healthyExitCodes { if exitCode == v {...; break} }`:
\* TRUE iff the body's condition held for some element.
RECURSIVE ExitCodeIsHealthy(_, _)
ExitCodeIsHealthy(codes, code) ==
    IF codes = <<>> THEN FALSE
    ELSE IF code = Head(codes) THEN TRUE
    ELSE ExitCodeIsHealthy(Tail(codes), code)

\* The loop over printIfMatch: TRUE iff some pattern occurs in the output.
RECURSIVE AnyPatternFound(_, _)
AnyPatternFound(patterns, out) ==
    IF patterns = <<>> THEN FALSE
    ELSE IF Contains(out, Head(patterns)) THEN TRUE
    ELSE AnyPatternFound(Tail(patterns), out)

\* The loop over printIfNotMatch: TRUE iff some pattern is absent.
RECURSIVE AnyPatternMissing(_, _)
AnyPatternMissing(patterns, out) ==
    IF patterns = <<>> THEN FALSE
    ELSE IF ~Contains(out, Head(patterns)) THEN TRUE
    ELSE AnyPatternMissing(Tail(patterns), out)

\* fmt.Sprintf("\n- Retrying after %.0f seconds -\n\n", retryDelay seconds).
RetryMarker(delay) == "- Retrying after " \o ToString(delay) \o " seconds -"

\* fmt.Sprintf("Error: Failed to run '%s': %s", cmd.String(), err).
FailedToRunText == "Error: Failed to run"

\* The text written in place of an empty program output.
NoOutputText == "(no output produced)"

\* cmd.ProcessState.ExitCode(), or -1 when ProcessState is nil.
ProcessExitCode(res) == IF res.launched THEN res.code ELSE -1

(* ------------------------------- state -------------------------------- *)

(* ------------------------- delivery channels -------------------------- *)

\* A nil error.
NoError == ""

\* The order in which executeDeliveries() looks at the channels.
ChannelOrder == << "mail", "ntfy", "discord", "slack" >>

Channels == { ChannelOrder[i] : i \in DOMAIN ChannelOrder }

StatusOK == 200

StatusNoContent == 204

\* What the outside world answers to one attempt on a channel: the SMTP
\* connection or the sending fails, the ntfy publisher fails, the webhook
\* POST fails in transport or is answered with an HTTP status, and the body
\* of the answer can be read ("http") or not ("unreadable").
MailResponses == { [kind |-> k, status |-> 0] : k \in {"ok", "connect", "send"} }

NtfyResponses == { [kind |-> k, status |-> 0] : k \in {"ok", "send"} }

WebhookResponses ==
    { [kind |-> "transport", status |-> 0] }
        \cup { [kind |-> k, status |-> st] :
                  k \in {"http", "unreadable"},
                  st \in {StatusOK, StatusNoContent, 500} }

Responses(channel) ==
    CASE channel = "mail" -> MailResponses
      [] channel = "ntfy" -> NtfyResponses
      [] OTHER -> WebhookResponses

\* The cause wrapped by %w and the body of a webhook's answer.
CauseText == "i/o timeout"

ResponseBody == "response body"

executeMailDelivery(resp) ==
    IF resp.kind = "connect"
    THEN "failed to connect to SMTP server: " \o CauseText
    ELSE IF resp.kind = "send"
    THEN "failed to send email to rcpt: " \o CauseText
    ELSE NoError

executeNtfyDelivery(resp) ==
    IF resp.kind = "send"
    THEN "failed to send ntfy notification: " \o CauseText
    ELSE NoError

executeDiscordDelivery(resp) ==
    IF resp.kind = "transport"
    THEN "failed POSTing Discord webhook: " \o CauseText
    ELSE IF resp.status # StatusNoContent
    THEN IF resp.kind = "unreadable"
         THEN "failed POSTing Discord webhook (" \o ToString(resp.status)
                 \o ") and reading response body: " \o CauseText
         ELSE "failed POSTing Discord webhook (" \o ToString(resp.status)
                 \o "): " \o ResponseBody
    ELSE NoError

\* Variant: the Slack channel expects the status the Discord channel expects.
executeSlackDelivery_NoContent(resp) ==
    IF resp.kind = "transport"
    THEN "failed POSTing Slack webhook: " \o CauseText
    ELSE IF resp.status # StatusNoContent
    THEN IF resp.kind = "unreadable"
         THEN "failed POSTing Slack webhook (" \o ToString(resp.status)
                 \o ") and reading response body: " \o CauseText
         ELSE "failed POSTing Slack webhook (" \o ToString(resp.status)
                 \o "): " \o ResponseBody
    ELSE NoError

executeSlackDelivery(resp) ==
    IF resp.kind = "transport"
    THEN "failed POSTing Slack webhook: " \o CauseText
    ELSE IF resp.status # StatusOK
    THEN IF resp.kind = "unreadable"
         THEN "failed POSTing Slack webhook (" \o ToString(resp.status)
                 \o ") and reading response body: " \o CauseText
         ELSE "failed POSTing Slack webhook (" \o ToString(resp.status)
                 \o "): " \o ResponseBody
    ELSE NoError

ChannelDelivery(channel, resp) ==
    CASE channel = "mail"    -> executeMailDelivery(resp)
      [] channel = "ntfy"    -> executeNtfyDelivery(resp)
      [] channel = "discord" -> executeDiscordDelivery(resp)
      [] channel = "slack"   -> executeSlackDelivery(resp)

extendErrSlice(errs, err) == IF err # NoError THEN Append(errs, err) ELSE errs

\* One `if config.<channel> != nil { ... }` of executeDeliveries(): acc holds
\* the error slice and the record of the attempts made so far.
DeliveryStep(acc, cfg, channel, resp) ==
    IF channel \in cfg
    THEN LET err == ChannelDelivery(channel, resp[channel])
         IN  [ log  |-> Append(acc.log, [channel |-> channel, resp |-> resp[channel],
                                      err |-> err]),
               errs |-> extendErrSlice(acc.errs, err) ]
    ELSE acc

\* Variant: the channels after a failed one are not attempted.
executeDeliveries_StopOnError(cfg, resp) ==
    LET a0 == [ log |-> <<>>, errs |-> <<>> ]
        a1 == DeliveryStep(a0, cfg, "mail", resp)
        a2 == IF a1.errs = <<>> THEN DeliveryStep(a1, cfg, "ntfy", resp) ELSE a1
        a3 == IF a2.errs = <<>> THEN DeliveryStep(a2, cfg, "discord", resp) ELSE a2
    IN  IF a3.errs = <<>> THEN DeliveryStep(a3, cfg, "slack", resp) ELSE a3

executeDeliveries(cfg, resp) ==
    LET a0 == [ log |-> <<>>, errs |-> <<>> ]
        a1 == DeliveryStep(a0, cfg, "mail", resp)
        a2 == DeliveryStep(a1, cfg, "ntfy", resp)
        a3 == DeliveryStep(a2, cfg, "discord", resp)
    IN  DeliveryStep(a3, cfg, "slack", resp)

(* ------------------------------ log file ------------------------------ *)

DeliveryErrorsHeader == "--- Runner Delivery Errors ---"

\* Variant: the section's header is written for every run.
LogContent_AlwaysHeader(report, errs) ==
    << report >> \o << DeliveryErrorsHeader >> \o errs

\* writeLogs(): the content handed to writeLogFile().
LogContent(report, errs) ==
    << report >> \o (IF Len(errs) > 0
                     THEN << DeliveryErrorsHeader >> \o errs
                     ELSE <<>>)

\* Variant: a log is kept only of the runs that are surfaced.
LogWanted_OnlySurfaced(dir, out) == dir /\ out.shouldPrint

\* writeLogs() returns at once when no log directory is configured.
LogWanted(dir, out) == dir

\* How far writeLogs() gets: the directory cannot be made, the file cannot
\* be written, the written file cannot be given to the run-as user.
LogOutcomes == {"ok", "mkdir", "write", "chown"}

writeLogsError(outcome) ==
    CASE outcome = "ok"    -> NoError
      [] outcome = "mkdir" -> "failed to create log directory: " \o CauseText
      [] outcome = "write" -> "failed to write log file: " \o CauseText
      [] outcome = "chown" -> "failed to chown log file: " \o CauseText

LogFileWritten(outcome) == outcome \in {"ok", "chown"}

(* ---------------------------- environment ----------------------------- *)

\* An environment without anything to hide.
PlainEnviron == << [ name |-> "PATH", value |-> << "/", "b", "i", "n" >> ] >>

SMTPPassEnvVar == "RUNNER_SMTP_PASS"

NtfyAccessTokenEnvVar == "RUNNER_NTFY_ACCESS_TOKEN"

MinLenForCensorHint == 5

\* A value is the sequence of its characters; the value of RUNNER_HIDE_ENV
\* and of RUNNER_CENSOR_ENV is the sequence of its colon-separated fields.
\* strings.Split() of an unset or empty value yields one empty field.
SplitColon(fields) == IF fields = <<>> THEN << "" >> ELSE fields

\* %d
RECURSIVE Itoa(_)
Itoa(n) ==
    IF n < 10
    THEN << ToString(n) >>
    ELSE Itoa(n \div 10) \o << ToString(n % 10) >>

\* "[%d chars]"
LengthPlaceholder(n) ==
    << "[" >> \o Itoa(n) \o << " ", "c", "h", "a", "r", "s", "]" >>

stringSliceContains(slice, value) == \E i \in DOMAIN slice : slice[i] = value

hiddenEnvVars(hide) == SplitColon(hide)

censoredEnvVars(censor) == SplitColon(censor)

shouldHideEnvVar(hide, varName) ==
    stringSliceContains(hiddenEnvVars(hide), varName)

censoredEnvVarValue(censor, varName, value) ==
    IF ~stringSliceContains(censoredEnvVars(censor), varName)
          /\ varName # SMTPPassEnvVar
    THEN value
    ELSE IF Len(value) < MinLenForCensorHint
    THEN LengthPlaceholder(Len(value))
    ELSE << value[1] >> \o LengthPlaceholder(Len(value) - 2)
            \o << value[Len(value)] >>

\* Variant: the hidden variables are listed like the others.
RECURSIVE EnvironmentListing_NothingHidden(_, _, _)
EnvironmentListing_NothingHidden(env, hide, censor) ==
    IF env = <<>>
    THEN <<>>
    ELSE << [ name  |-> Head(env).name,
              value |-> censoredEnvVarValue(censor, Head(env).name,
                                            Head(env).value) ] >>
            \o EnvironmentListing_NothingHidden(Tail(env), hide, censor)

\* runner(): the loop over os.Environ() that writes the "Environment:" lines.
RECURSIVE EnvironmentListing(_, _, _)
EnvironmentListing(env, hide, censor) ==
    IF env = <<>>
    THEN <<>>
    ELSE IF shouldHideEnvVar(hide, Head(env).name)
    THEN EnvironmentListing(Tail(env), hide, censor)
    ELSE << [ name  |-> Head(env).name,
              value |-> censoredEnvVarValue(censor, Head(env).name,
                                            Head(env).value) ] >>
            \o EnvironmentListing(Tail(env), hide, censor)

(* --------------------------- configuration ---------------------------- *)

\* The string settings are sequences of characters, <<>> is the empty string.
ContainsChar(s, c) == \E i \in DOMAIN s : s[i] = c

\* os.Getenv(): the empty string when the variable is not set.
Getenv(env, name) ==
    IF \E i \in DOMAIN env : env[i].name = name
    THEN env[CHOOSE i \in DOMAIN env : env[i].name = name].value
    ELSE <<>>

MailToEnvVar == "RUNNER_MAILTO"

SMTPUserEnvVar == "RUNNER_SMTP_USER"

SMTPHostEnvVar == "RUNNER_SMTP_HOST"

NtfyServerEnvVar == "RUNNER_NTFY_SERVER"

NtfyTopicEnvVar == "RUNNER_NTFY_TOPIC"

DiscordWebhookEnvVar == "RUNNER_DISCORD_WEBHOOK"

\* `if x == "" { x = os.Getenv(name) }`
OrEnv(value, env, name) == IF value = <<>> THEN Getenv(env, name) ELSE value

HomeDirWarningWithError(uid) ==
    "cannot find homedir for UID " \o ToString(uid)
        \o " (unknown userid); HOME will not be changed"

HomeDirWarning(uid) ==
    "cannot find homedir for UID " \o ToString(uid)
        \o "; HOME will not be changed"

SMTPPortWarning(port) ==
    "Invalid SMTP port " \o ToString(port)
        \o " given; using default of 25 instead"

MailSettingsWarning ==
    "If using -mailto, you must also specify -smtp-user, -smtp-pass, -smtp-host."

NtfyTopicWarning ==
    "If using -ntfy-server, you must also specify -ntfy-topic."

NtfyPriorityWarning(priority) ==
    "Invalid ntfy priority " \o ToString(priority)
        \o " given; must be between 1-5, inclusive."

GetwdWarning ==
    "Failed to get runner's current working directory (this error affects printed output only)"

\* runCfg.runAsUser = nil
NoRunAs == [ configured |-> FALSE, uid |-> -1, userHome |-> <<>> ]

\* u.HomeDir of the user that user.LookupId() finds.
UserHomeDir == << "/", "h" >>

\* What user.LookupId() returns: the user and no error, or no user and an
\* error.
LookupResults == { [ u |-> TRUE, err |-> FALSE ], [ u |-> FALSE, err |-> TRUE ] }

\* user.LookupId() was not called.
NoLookup == [ u |-> FALSE, err |-> FALSE ]

\* main(): the run-as configuration; u and err are `u != nil`, `err != nil`.
RunAsFor(uid, lookup) ==
    IF uid = -1
    THEN NoRunAs
    ELSE [ configured |-> TRUE,
           uid |-> uid,
           userHome |-> IF lookup.err /\ lookup.u THEN UserHomeDir ELSE <<>> ]

RunAsWarnings(uid, lookup) ==
    IF uid = -1
    THEN <<>>
    ELSE IF lookup.err /\ lookup.u
    THEN <<>>
    ELSE IF lookup.err
    THEN << HomeDirWarningWithError(uid) >>
    ELSE << HomeDirWarning(uid) >>

\* main(): the mail configuration.
MailTo(s, env) == OrEnv(s.mailTo, env, MailToEnvVar)

MailAddressed(s, env) ==
    MailTo(s, env) # <<>> /\ ContainsChar(MailTo(s, env), "@")

\* `*smtpUser != "" || *smtpPass != "" || *smtpHost != ""`: the flags.
SMTPFlagGiven(s) == s.smtpUser # <<>> \/ s.smtpPass # <<>> \/ s.smtpHost # <<>>

ShouldMailOutput(s, env) == MailAddressed(s, env) /\ SMTPFlagGiven(s)

SMTPPortInvalid(port) == port < 1 \/ port > 65535

MailCfgFor(s, env) ==
    [ mailTo       |-> MailTo(s, env),
      smtpUser     |-> OrEnv(s.smtpUser, env, SMTPUserEnvVar),
      smtpPassword |-> OrEnv(s.smtpPass, env, SMTPPassEnvVar),
      smtpHost     |-> OrEnv(s.smtpHost, env, SMTPHostEnvVar),
      smtpPort     |-> IF ShouldMailOutput(s, env) /\ SMTPPortInvalid(s.smtpPort)
                       THEN 25
                       ELSE s.smtpPort ]

MailWarnings(s, env) ==
    IF MailAddressed(s, env)
    THEN IF SMTPFlagGiven(s)
         THEN IF SMTPPortInvalid(s.smtpPort)
              THEN << SMTPPortWarning(s.smtpPort) >>
              ELSE <<>>
         ELSE << MailSettingsWarning >>
    ELSE <<>>

\* main(): the ntfy configuration.
NtfyServer(s, env) == OrEnv(s.ntfyServer, env, NtfyServerEnvVar)

NtfyTopic(s, env) == OrEnv(s.ntfyTopic, env, NtfyTopicEnvVar)

ShouldNtfyOutput(s, env) == NtfyServer(s, env) # <<>> /\ NtfyTopic(s, env) # <<>>

NtfyPriorityInvalid(priority) == priority < 1 \/ priority > 5

\* Variant: the priority is passed on as it was given.
NormalizeNtfyPriority_Unchanged(priority) == priority

NormalizeNtfyPriority(priority) ==
    IF NtfyPriorityInvalid(priority) THEN 3 ELSE priority

NtfyCfgFor(s, env) ==
    [ ntfyTopic    |-> NtfyTopic(s, env),
      ntfyPriority |-> NormalizeNtfyPriority(s.ntfyPriority) ]

NtfyWarnings(s, env) ==
    (IF NtfyServer(s, env) # <<>> /\ NtfyTopic(s, env) = <<>>
     THEN << NtfyTopicWarning >>
     ELSE <<>>)
        \o (IF NtfyPriorityInvalid(s.ntfyPriority)
            THEN << NtfyPriorityWarning(s.ntfyPriority) >>
            ELSE <<>>)

\* main(): the Discord configuration.
ShouldDiscordOutput(s, env) ==
    OrEnv(s.discordWebhook, env, DiscordWebhookEnvVar) # <<>>

\* The channels main() puts into deliveryCfg. main() has no setting for the
\* slack field of deliveryConfig: whether it is filled is taken as given.
DeliveryCfgFor(s, env, slack) ==
    (IF ShouldMailOutput(s, env) THEN {"mail"} ELSE {})
        \cup (IF ShouldNtfyOutput(s, env) THEN {"ntfy"} ELSE {})
        \cup (IF ShouldDiscordOutput(s, env) THEN {"discord"} ELSE {})
        \cup (IF slack THEN {"slack"} ELSE {})

\* runner(): cmd.Env, with HOME replaced for the run-as user.
RECURSIVE RemoveFirstHome(_)
RemoveFirstHome(env) ==
    IF env = <<>>
    THEN <<>>
    ELSE IF Head(env).name = "HOME"
    THEN Tail(env)
    ELSE << Head(env) >> \o RemoveFirstHome(Tail(env))

ChildEnv(env, runAs) ==
    IF runAs.configured /\ runAs.userHome # <<>>
    THEN Append(RemoveFirstHome(env), [ name |-> "HOME", value |-> runAs.userHome ])
    ELSE env

\* What os.Getwd() returns when -work-dir is not given.
WorkingDir == << "/", "c", "w", "d" >>

\* The settings when only -work-dir is given.
DefaultSetup ==
    [ mailTo |-> <<>>, smtpUser |-> <<>>, smtpPass |-> <<>>, smtpHost |-> <<>>,
      smtpPort |-> 25, ntfyServer |-> <<>>, ntfyTopic |-> <<>>,
      ntfyPriority |-> 3, discordWebhook |-> <<>>, uid |-> -1,
      workDir |-> << "/", "w" >> ]

\* The settings that configure exactly the given channels.
SetupFor(channels) ==
    [ DefaultSetup EXCEPT
        !.mailTo = IF "mail" \in channels THEN << "o", "@", "x" >> ELSE <<>>,
        !.smtpUser = IF "mail" \in channels THEN << "u" >> ELSE <<>>,
        !.smtpPass = IF "mail" \in channels THEN << "p" >> ELSE <<>>,
        !.smtpHost = IF "mail" \in channels THEN << "h" >> ELSE <<>>,
        !.ntfyServer = IF "ntfy" \in channels THEN << "n" >> ELSE <<>>,
        !.ntfyTopic = IF "ntfy" \in channels THEN << "t" >> ELSE <<>>,
        !.discordWebhook = IF "discord" \in channels THEN << "d" >> ELSE <<>> ]

VARIABLES
    flags,          \* the parsed command line
    config,         \* runCfg, as main() builds it
    logDir,         \* logCfg.logDir # ""
    triesRemaining, \* runner(): locals
    succeeded,
    shouldPrint,
    exitCode,       \* the exitCode declared before the loop
    programOutput,
    startTime,
    endTime,
    now,            \* the wall clock
    attempts,       \* history: one record per execution of the child
    runOut,         \* the runOutput runner() returned
    stdout,         \* what main() printed
    logFile,        \* what writeLogs() stored
    exitStatus,     \* the process exit status; -1 while running
    pc,
    deliveryCfg,    \* the channels present in deliveryCfg
    environ,        \* os.Environ(): a sequence of [name, value] entries
    hideEnvVars,    \* the value of RUNNER_HIDE_ENV, a list of names
    censorEnvVars,  \* the value of RUNNER_CENSOR_ENV, a list of names
    deliveryLog,    \* history: one record per channel attempted
    deliveryErrs,   \* main()'s deliveryErrs
    logErr,         \* the error writeLogs() returned, NoError for nil
    events,         \* history: the externally visible steps, in order
    setup,          \* the parsed delivery, run-as and work-dir flags
    slackGiven,     \* deliveryCfg.slack # nil
    mailCfg,        \* mailCfg, as main() builds it
    ntfyCfg,        \* ntfyCfg, as main() builds it
    runAsUser,      \* runCfg.runAsUser
    lookup,         \* history: what user.LookupId() returned
    configAtCall    \* history: runCfg when runner() was called

vars == << flags, config, logDir, triesRemaining, succeeded, shouldPrint,
           exitCode, programOutput, startTime, endTime, now, attempts,
           runOut, stdout, logFile, exitStatus, pc, deliveryCfg, environ,
           hideEnvVars, censorEnvVars, deliveryLog, deliveryErrs, logErr,
           events, setup, slackGiven, mailCfg, ntfyCfg, runAsUser, lookup,
           configAtCall >>

\* What the process is started with and never assigns.
inputs == << flags, logDir, setup, slackGiven, environ, hideEnvVars,
            censorEnvVars >>

\* What main() resolves from the settings before it calls runner().
resolved == << deliveryCfg, mailCfg, ntfyCfg, runAsUser, lookup >>

ZeroConfig ==
    [ healthyExitCodes |-> <<>>, retries |-> 0, retryDelay |-> 0,
      alwaysPrint |-> FALSE, printIfMatch |-> <<>>, printIfNotMatch |-> <<>>,
      hideEnv |-> FALSE, workDir |-> <<>>, setupWarnings |-> <<>> ]

ZeroReport ==
    [ status |-> "", exitCode |-> 0, duration |-> 0, startTime |-> 0,
      endTime |-> 0, retriesAllowed |-> 0, workDir |-> <<>>,
      hasEnvironment |-> FALSE, environment |-> <<>>,
      setupWarnings |-> <<>>, programOutput |-> <<>> ]

ZeroRunOut ==
    [ output |-> ZeroReport, startTime |-> 0, endTime |-> 0,
      shouldPrint |-> FALSE, succeeded |-> FALSE ]

\* Every variable the program assigns, before main() has done anything.
InitState ==
    /\ config = ZeroConfig
    /\ triesRemaining = 0
    /\ succeeded = FALSE
    /\ shouldPrint = FALSE
    /\ exitCode = 0
    /\ programOutput = <<>>
    /\ startTime = 0
    /\ endTime = 0
    /\ now = 1
    /\ attempts = <<>>
    /\ runOut = ZeroRunOut
    /\ stdout = <<>>
    /\ logFile = <<>>
    /\ exitStatus = -1
    /\ deliveryLog = <<>>
    /\ deliveryErrs = <<>>
    /\ logErr = NoError
    /\ events = <<>>
    /\ deliveryCfg = {}
    /\ mailCfg = MailCfgFor(DefaultSetup, <<>>)
    /\ ntfyCfg = NtfyCfgFor(DefaultSetup, <<>>)
    /\ runAsUser = NoRunAs
    /\ lookup = NoLookup
    /\ configAtCall = ZeroConfig
    /\ pc = "main"

\* The state after flag.Parse(): every combination of the engine's flags,
\* no log directory, no delivery channel, a plain environment.
Init ==
    /\ flags \in [ healthyExit : { ParseHealthyExit(<<>>, a) : a \in HealthyExitArgs },
                   retries : RetryValues,
                   retryDelay : RetryDelayValues,
                   alwaysPrint : BOOLEAN,
                   printIfMatch : PatternLists,
                   printIfNotMatch : PatternLists,
                   hideEnv : {FALSE} ]
    /\ logDir = FALSE
    /\ setup = DefaultSetup
    /\ slackGiven = FALSE
    /\ environ = PlainEnviron
    /\ hideEnvVars = <<>>
    /\ censorEnvVars = <<>>
    /\ InitState

\* The engine's flags of the runs that exercise the tail of main().
TailFlags ==
    [ healthyExit : { <<>> },
      retries : {0, 1},
      retryDelay : {0},
      alwaysPrint : BOOLEAN,
      printIfMatch : { <<>> },
      printIfNotMatch : { <<>> },
      hideEnv : {FALSE} ]

\* The state after flag.Parse() of the runs with delivery channels: the
\* settings of every set of channels, with or without a log directory.
InitDelivery ==
    /\ flags \in TailFlags
    /\ logDir \in BOOLEAN
    /\ \E channels \in SUBSET Channels :
          /\ setup = SetupFor(channels)
          /\ slackGiven = ("slack" \in channels)
    /\ environ = PlainEnviron
    /\ hideEnvVars = <<>>
    /\ censorEnvVars = <<>>
    /\ InitState

\* A value of 11 characters that has the form of its own censored rendering.
SelfDescribingValue ==
    << "x", "[", "9", " ", "c", "h", "a", "r", "s", "]", "y" >>

\* Values around the length at which the first and last character are shown.
EnvValues ==
    { <<>>,
      << "a", "b", "c", "d" >>,
      << "a", "b", "c", "d", "e" >>,
      SelfDescribingValue }

\* The variables whose values vary, in the order of os.Environ().
EnvNames == << "API_KEY", NtfyAccessTokenEnvVar, SMTPPassEnvVar >>

HideLists == { <<>>, << "API_KEY" >>, << SMTPPassEnvVar, "API_KEY" >> }

CensorLists == { <<>>, << "API_KEY" >>, << "API_KEY", NtfyAccessTokenEnvVar >> }

\* The flags of the runs that exercise the environment listing.
EnvFlags ==
    [ healthyExit : { <<>> },
      retries : {0},
      retryDelay : {0},
      alwaysPrint : {FALSE},
      printIfMatch : { <<>> },
      printIfNotMatch : { <<>> },
      hideEnv : BOOLEAN ]

\* The state after flag.Parse() of a process started with one of the
\* environments: PATH, then the three variables with any of the values.
InitEnv ==
    /\ flags \in EnvFlags
    /\ logDir = FALSE
    /\ setup = DefaultSetup
    /\ slackGiven = FALSE
    /\ environ \in { PlainEnviron \o [ i \in DOMAIN EnvNames |->
                                          [ name |-> EnvNames[i], value |-> v[i] ] ] :
                      v \in [ DOMAIN EnvNames -> EnvValues ] }
    /\ hideEnvVars \in HideLists
    /\ censorEnvVars \in CensorLists
    /\ InitState

\* The flags of the runs followed to their end: every retry count.
LiveFlags ==
    [ healthyExit : { <<>> },
      retries : RetryValues,
      retryDelay : {0},
      alwaysPrint : BOOLEAN,
      printIfMatch : { <<>> },
      printIfNotMatch : { <<>> },
      hideEnv : {FALSE} ]

\* The state after flag.Parse() of the runs followed to their end: with or
\* without the ntfy channel, with or without a log directory.
InitLive ==
    /\ flags \in LiveFlags
    /\ logDir \in BOOLEAN
    /\ \E channels \in SUBSET {"ntfy"} : setup = SetupFor(channels)
    /\ slackGiven = FALSE
    /\ environ = PlainEnviron
    /\ hideEnvVars = <<>>
    /\ censorEnvVars = <<>>
    /\ InitState

\* The flags of the runs that exercise the configuration.
ConfigFlags ==
    [ healthyExit : { <<>> },
      retries : {0},
      retryDelay : {0},
      alwaysPrint : {FALSE},
      printIfMatch : { <<>> },
      printIfNotMatch : { <<>> },
      hideEnv : {FALSE} ]

\* -mailto: not given, without and with an '@'.
MailToValues == { <<>>, << "o", "p" >>, << "o", "@", "x" >> }

\* -smtp-user, -smtp-pass, -smtp-host: none, all three, the user only.
SMTPFlagValues ==
    { [ user |-> <<>>, pass |-> <<>>, host |-> <<>> ],
      [ user |-> << "u" >>, pass |-> << "p" >>, host |-> << "h" >> ],
      [ user |-> << "u" >>, pass |-> <<>>, host |-> <<>> ] }

SMTPPortValues == {0, 25, 65536}

NtfyPriorityValues == {0, 3, 6}

ConfigSetups ==
    { [ DefaultSetup EXCEPT
          !.mailTo = to, !.smtpUser = smtp.user, !.smtpPass = smtp.pass,
          !.smtpHost = smtp.host, !.smtpPort = port, !.ntfyServer = server,
          !.ntfyTopic = topic, !.ntfyPriority = priority, !.uid = uid,
          !.workDir = dir ] :
        to \in MailToValues, smtp \in SMTPFlagValues, port \in SMTPPortValues,
        server \in { <<>>, << "n" >> }, topic \in { <<>>, << "t" >> },
        priority \in NtfyPriorityValues, uid \in {-1, 1000},
        dir \in { <<>>, << "/", "w" >> } }

\* The environment: PATH, with or without HOME, with or without the three
\* SMTP settings.
HomeEnviron == << [ name |-> "HOME", value |-> << "/", "r" >> ] >>

SMTPEnviron ==
    << [ name |-> SMTPUserEnvVar, value |-> << "u" >> ],
       [ name |-> SMTPPassEnvVar, value |-> << "p" >> ],
       [ name |-> SMTPHostEnvVar, value |-> << "h" >> ] >>

ConfigEnvirons ==
    { PlainEnviron \o home \o smtp :
        home \in { <<>>, HomeEnviron }, smtp \in { <<>>, SMTPEnviron } }

\* The state after flag.Parse() of the runs that exercise the configuration.
InitConfig ==
    /\ flags \in ConfigFlags
    /\ logDir = FALSE
    /\ setup \in ConfigSetups
    /\ slackGiven = FALSE
    /\ environ \in ConfigEnvirons
    /\ hideEnvVars = <<>>
    /\ censorEnvVars = <<>>
    /\ InitState

(* ------------------------------ actions ------------------------------- *)

\* main(): build runCfg from the flags, default the healthy exit codes,
\* convert the retry delay.
\* Variant: the empty list is passed on as it is.
NormalizeHealthyExit_Unchanged(codes) == codes

NormalizeHealthyExit(codes) == IF Len(codes) = 0 THEN <<0>> ELSE codes

NormalizeRetryDelay(seconds) == IF seconds > 0 THEN seconds ELSE 0

MainConfigure ==
    /\ pc = "main"
    /\ config' = [ healthyExitCodes |-> NormalizeHealthyExit(flags.healthyExit),
                   retries |-> flags.retries,
                   retryDelay |-> NormalizeRetryDelay(flags.retryDelay),
                   alwaysPrint |-> flags.alwaysPrint,
                   printIfMatch |-> flags.printIfMatch,
                   printIfNotMatch |-> flags.printIfNotMatch,
                   hideEnv |-> flags.hideEnv,
                   workDir |-> setup.workDir,
                   setupWarnings |-> <<>> ]
    /\ pc' = "setup"
    /\ UNCHANGED << inputs, resolved, configAtCall, triesRemaining, succeeded, shouldPrint,
                    exitCode, programOutput, startTime, endTime, now,
                    attempts, runOut, stdout, logFile, exitStatus,
                    deliveryLog, deliveryErrs, logErr, events >>

\* main(): the run-as user and the delivery channels, with the setup
\* warnings they add to runCfg.outputConfig.
MainSetup ==
    /\ pc = "setup"
    /\ \E found \in (IF setup.uid # -1 THEN LookupResults ELSE { NoLookup }) :
         /\ lookup' = found
         /\ runAsUser' = RunAsFor(setup.uid, found)
         /\ config' = [ config EXCEPT !.setupWarnings =
                            @ \o RunAsWarnings(setup.uid, found)
                              \o MailWarnings(setup, environ)
                              \o NtfyWarnings(setup, environ) ]
    /\ mailCfg' = MailCfgFor(setup, environ)
    /\ ntfyCfg' = NtfyCfgFor(setup, environ)
    /\ deliveryCfg' = DeliveryCfgFor(setup, environ, slackGiven)
    /\ pc' = "call"
    /\ UNCHANGED << inputs, configAtCall, triesRemaining, succeeded,
                    shouldPrint, exitCode, programOutput, startTime, endTime,
                    now, attempts, runOut, stdout, logFile, exitStatus,
                    deliveryLog, deliveryErrs, logErr, events >>

\* runner(): the declarations before the retry loop.
\* Variant: one try too many.
InitialTries_OneMore(retries) == 2 + retries

InitialTries(retries) == 1 + retries

RunnerEnter ==
    /\ pc = "call"
    /\ programOutput' = <<>>
    /\ startTime' = 0
    /\ endTime' = 0
    /\ triesRemaining' = InitialTries(config.retries)
    /\ succeeded' = FALSE
    /\ shouldPrint' = TRUE
    /\ exitCode' = -1
    /\ configAtCall' = config
    /\ pc' = "loop"
    /\ UNCHANGED << inputs, resolved, config, now, attempts, runOut, stdout,
                    logFile, exitStatus, deliveryLog, deliveryErrs, logErr,
                    events >>

\* runner(): one iteration of `for triesRemaining > 0`.
IsRetry(retries, tries) == retries > 0 /\ tries # 1 + retries

\* Variant: the sleep is not restricted to retries.
SleepDuration_EveryAttempt(isRetry, retryDelay) ==
    IF retryDelay > 0 THEN retryDelay ELSE 0

\* time.Sleep(config.retryDelay), only on a retry with a positive delay.
SleepDuration(isRetry, retryDelay) ==
    IF isRetry /\ retryDelay > 0 THEN retryDelay ELSE 0

\* Variant: the marker is written only when a delay was slept.
MarkerFor_OnlyWithDelay(isRetry, retryDelay) ==
    IF isRetry /\ retryDelay > 0 THEN << RetryMarker(retryDelay) >> ELSE <<>>

\* The marker written to programOutput before a retry.
MarkerFor(isRetry, retryDelay) ==
    IF isRetry THEN << RetryMarker(retryDelay) >> ELSE <<>>

\* cmdOutStr: the captured output, replaced by an error text when the
\* child could not be launched.
CmdOutStr(res) == IF res.launched THEN res.out ELSE << FailedToRunText >>

\* Variant: an unhealthy attempt does not use up a try.
TriesAfter_KeepsTrying(tries, healthy) == IF healthy THEN 0 ELSE tries

\* Variant: a healthy exit code does not end the loop.
TriesAfter_NoStop(tries, healthy) == tries - 1

\* triesRemaining-- at the top of the body; a healthy exit code zeroes it.
TriesAfter(tries, healthy) == IF healthy THEN 0 ELSE tries - 1

\* Variant: the exit code decides alone, healthy or not.
ShouldPrintAfter_ExitOnly(prev, healthy, cfg, out) ==
    LET afterExit == cfg.alwaysPrint
        afterMatch == IF ~afterExit
                      THEN AnyPatternFound(cfg.printIfMatch, out)
                      ELSE afterExit
    IN  IF ~afterMatch
        THEN AnyPatternMissing(cfg.printIfNotMatch, out)
        ELSE afterMatch

\* Variant: the patterns are searched in everything written so far.
ShouldPrintAfter_Cumulative(prev, healthy, cfg, out) ==
    LET all == programOutput \o out
        afterExit == IF healthy THEN cfg.alwaysPrint ELSE prev
        afterMatch == IF ~afterExit
                      THEN AnyPatternFound(cfg.printIfMatch, all)
                      ELSE afterExit
    IN  IF ~afterMatch
        THEN AnyPatternMissing(cfg.printIfNotMatch, all)
        ELSE afterMatch

\* shouldPrint after the three checks at the end of the body.
ShouldPrintAfter(prev, healthy, cfg, out) ==
    LET afterExit == IF healthy THEN cfg.alwaysPrint ELSE prev
        afterMatch == IF ~afterExit
                      THEN AnyPatternFound(cfg.printIfMatch, out)
                      ELSE afterExit
    IN  IF ~afterMatch
        THEN AnyPatternMissing(cfg.printIfNotMatch, out)
        ELSE afterMatch

\* startTime = time.Now() is executed in every iteration.
StartTimeAfter(prev, t) == t

\* The exit code of the iteration is declared anew inside the loop body
\* (`exitCode := -1`), so the variable declared before the loop keeps its value.
OuterExitCodeAfter(prev, code) == prev

RunnerAttempt ==
    /\ pc = "loop"
    /\ triesRemaining > 0
    /\ \E res \in ChildResults :
         LET isRetry == IsRetry(config.retries, triesRemaining)
             slept   == SleepDuration(isRetry, config.retryDelay)
             marker  == MarkerFor(isRetry, config.retryDelay)
             started == now + slept
             ended   == started + ChildDuration
             out     == CmdOutStr(res)
             code    == ProcessExitCode(res)
             healthy == ExitCodeIsHealthy(config.healthyExitCodes, code)
         IN  /\ programOutput' = programOutput \o marker \o out
             /\ triesRemaining' = TriesAfter(triesRemaining, healthy)
             /\ startTime' = StartTimeAfter(startTime, started)
             /\ endTime' = ended
             /\ now' = ended
             /\ exitCode' = OuterExitCodeAfter(exitCode, code)
             /\ succeeded' = (succeeded \/ healthy)
             /\ shouldPrint' = ShouldPrintAfter(shouldPrint, healthy, config, out)
             /\ attempts' = Append(attempts,
                    [ launched |-> res.launched, exitCode |-> code,
                      captured |-> res.out, out |-> out, healthy |-> healthy,
                      start |-> started, end |-> ended,
                      slept |-> slept, marker |-> marker,
                      env |-> ChildEnv(environ, runAsUser) ])
    /\ events' = Append(events, "attempt")
    /\ UNCHANGED << inputs, resolved, configAtCall, config, runOut, stdout,
                    logFile, exitStatus, pc, deliveryLog, deliveryErrs,
                    logErr >>

\* runner(): after the loop, format the report and return the runOutput.
StatusStr(ok) == IF ok THEN "Succeeded" ELSE "Failed"

\* Variant: an empty program output is written as it is.
ProgramOutputSection_NoMarker(text) == text

\* `if programOutput.Len() == 0`: the last section of the report.
ProgramOutputSection(text) ==
    IF Len(text) = 0 THEN << NoOutputText >> ELSE text

\* runner(): `if config.workDir == ""`: the directory os.Getwd() returns is
\* stored in the configuration, a failure of os.Getwd() adds a setup warning.
ConfigAfterGetwd(cfg, getwd) ==
    IF cfg.workDir = <<>>
    THEN IF getwd = "ok"
         THEN [ cfg EXCEPT !.workDir = WorkingDir ]
         ELSE [ cfg EXCEPT !.setupWarnings = Append(@, GetwdWarning) ]
    ELSE cfg

RunnerReturn ==
    /\ pc = "loop"
    /\ triesRemaining <= 0
    /\ \E getwd \in (IF config.workDir = <<>> THEN {"ok", "failed"} ELSE {"ok"}) :
         LET cfg == ConfigAfterGetwd(config, getwd)
         IN  /\ config' = cfg
             /\ runOut' =
                  [ output |-> [ status |-> StatusStr(succeeded),
                                 exitCode |-> exitCode,
                                 duration |-> endTime - startTime,
                                 startTime |-> startTime,
                                 endTime |-> endTime,
                                 retriesAllowed |-> cfg.retries,
                                 workDir |-> cfg.workDir,
                                 hasEnvironment |-> ~cfg.hideEnv,
                                 environment |->
                                     IF ~cfg.hideEnv
                                     THEN EnvironmentListing(environ, hideEnvVars,
                                                             censorEnvVars)
                                     ELSE <<>>,
                                 setupWarnings |-> cfg.setupWarnings,
                                 programOutput |-> ProgramOutputSection(programOutput) ],
                    startTime |-> startTime,
                    endTime |-> endTime,
                    shouldPrint |-> shouldPrint,
                    succeeded |-> succeeded ]
    /\ pc' = "returned"
    /\ UNCHANGED << inputs, resolved, configAtCall, triesRemaining, succeeded,
                    shouldPrint, exitCode, programOutput, startTime, endTime,
                    now, attempts, stdout, logFile, exitStatus,
                    deliveryLog, deliveryErrs, logErr, events >>

\* main(): what follows the call of runner(), step by step. `surfaced` tells
\* whether the report was printed.
\* Variant: the log is persisted before the deliveries are made.
MainFlow_LogBeforeDeliveries(step, surfaced) ==
    CASE step = "print"   -> "surfaced"
      [] step = "log"     -> IF surfaced THEN "deliver" ELSE "exit"
      [] step = "deliver" -> "exit"

MainFlow(step, surfaced) ==
    CASE step = "print"   -> IF surfaced THEN "deliver" ELSE "surfaced"
      [] step = "deliver" -> "surfaced"
      [] step = "log"     -> "exit"

\* Variant: every run is surfaced.
Surfaces_Always(out) == TRUE

\* main(): `if runOut.shouldPrint`.
Surfaces(out) == out.shouldPrint

\* main(): print the report when the run is to be surfaced.
MainSurface ==
    /\ pc = "returned"
    /\ stdout' = IF Surfaces(runOut) THEN << runOut.output >> ELSE stdout
    /\ events' = IF Surfaces(runOut) THEN Append(events, "print") ELSE events
    /\ pc' = MainFlow("print", Surfaces(runOut))
    /\ UNCHANGED << inputs, resolved, configAtCall, config, triesRemaining,
                    succeeded,
                    shouldPrint, exitCode, programOutput, startTime, endTime,
                    now, attempts, runOut, logFile, exitStatus,
                    deliveryLog, deliveryErrs, logErr >>

\* main(): deliveryErrs = executeDeliveries(deliveryCfg, runOut).
MainDeliver ==
    /\ pc = "deliver"
    /\ \E resp \in [ deliveryCfg -> UNION { Responses(c) : c \in Channels } ] :
         /\ \A c \in deliveryCfg : resp[c] \in Responses(c)
         /\ LET done == executeDeliveries(deliveryCfg, resp)
            IN  /\ deliveryErrs' = done.errs
                /\ deliveryLog' = deliveryLog \o done.log
                /\ events' = events \o [ i \in DOMAIN done.log |->
                                            "deliver " \o done.log[i].channel ]
    /\ pc' = MainFlow("deliver", TRUE)
    /\ UNCHANGED << inputs, resolved, configAtCall, config, triesRemaining,
                    succeeded,
                    shouldPrint, exitCode, programOutput, startTime, endTime,
                    now, attempts, runOut, stdout, logFile, exitStatus,
                    logErr >>

\* Variant: a failed delivery makes the process fail.
ExitStatusAfter_DeliveryErrors(err, errs, out) ==
    IF err # NoError \/ Len(errs) > 0 THEN 1 ELSE 0

\* Variant: the exit status tells whether the child succeeded.
ExitStatusAfter_ChildStatus(err, errs, out) ==
    IF err # NoError \/ ~out.succeeded THEN 1 ELSE 0

\* main(): log.Fatalf() exits with status 1 when writeLogs() returned an
\* error; otherwise main() returns and the process exits with status 0.
ExitStatusAfter(err, errs, out) == IF err # NoError THEN 1 ELSE 0

\* main(): err = writeLogs(logCfg, runOut, deliveryErrs) and what follows.
MainWriteLogs ==
    /\ pc = "surfaced"
    /\ \E outcome \in (IF LogWanted(logDir, runOut) THEN LogOutcomes ELSE {"ok"}) :
         LET written == LogWanted(logDir, runOut) /\ LogFileWritten(outcome)
             err     == writeLogsError(outcome)
         IN  /\ logFile' = IF written
                           THEN LogContent(runOut.output, deliveryErrs)
                           ELSE logFile
             /\ events' = IF written THEN Append(events, "log") ELSE events
             /\ logErr' = err
             /\ exitStatus' = ExitStatusAfter(err, deliveryErrs, runOut)
    /\ pc' = MainFlow("log", stdout # <<>>)
    /\ UNCHANGED << inputs, resolved, configAtCall, config, triesRemaining,
                    succeeded,
                    shouldPrint, exitCode, programOutput, startTime, endTime,
                    now, attempts, runOut, stdout, deliveryLog, deliveryErrs >>

Next ==
    \/ MainConfigure
    \/ MainSetup
    \/ RunnerEnter
    \/ RunnerAttempt
    \/ RunnerReturn
    \/ MainSurface
    \/ MainDeliver
    \/ MainWriteLogs

Spec == Init /\ [][Next]_vars

\* The runs with varied settings of the channels and of the run-as user.
SpecConfig == InitConfig /\ [][Next]_vars

\* The runs with a varied environment.
SpecEnv == InitEnv /\ [][Next]_vars

\* The runs with delivery channels.
SpecDelivery == InitDelivery /\ [][Next]_vars

\* The runs followed to their end. main() and runner() are one sequential
\* thread: as long as a step is left and every call returns, the next step
\* is taken.
SpecLive == InitLive /\ [][Next]_vars /\ WF_vars(Next)

(* ----------------------------- properties ---------------------------- *)

\* runner() has returned its runOutput.
Returned == pc \in {"returned", "deliver", "surfaced", "exit"}

NumAttempts == Len(attempts)

LastAttempt == attempts[Len(attempts)]

\* The healthy-exit set the user configured: the -healthy-exit values, or
\* {0} when none was given.
ConfiguredHealthy ==
    IF flags.healthyExit = <<>> THEN {0}
    ELSE { flags.healthyExit[i] : i \in DOMAIN flags.healthyExit }

\* `p` occurs in `s` as a contiguous substring.
Occurs(p, s) ==
    \E i \in 0 .. (Len(s) - Len(p)) : SubSeq(s, i + 1, i + Len(p)) = p

PatternsOf(list) == { list[i] : i \in DOMAIN list }

\* C1 as stated: with r >= 0 retries runner() performs at most r+1 attempts,
\* and exactly r+1 attempts only if every attempt was unhealthy.
C1_ExactlyOnlyIfAllUnhealthy ==
    flags.retries >= 0 =>
        /\ NumAttempts <= flags.retries + 1
        /\ NumAttempts = flags.retries + 1 =>
              \A i \in 1 .. NumAttempts :
                  attempts[i].exitCode \notin ConfiguredHealthy

\* C1 as amended: with r >= 0 retries runner() performs at most r+1
\* attempts, and exactly r+1 attempts only if every attempt before the last
\* one was unhealthy.
C1_AttemptBound ==
    flags.retries >= 0 =>
        /\ NumAttempts <= flags.retries + 1
        /\ NumAttempts = flags.retries + 1 =>
              \A i \in 1 .. (NumAttempts - 1) :
                  attempts[i].exitCode \notin ConfiguredHealthy

\* A run that used its whole budget of three attempts and then succeeded.
C1_Witness ==
    /\ Returned
    /\ flags.retries = 2
    /\ NumAttempts = 3
    /\ LastAttempt.exitCode \in ConfiguredHealthy

\* C2: once an attempt exits with a healthy exit code no further attempt is
\* started, whatever retry budget remains, and the run counts as succeeded.
C2_HealthyAttemptIsLast ==
    \A i \in 1 .. NumAttempts :
        attempts[i].exitCode \in ConfiguredHealthy =>
            /\ i = NumAttempts
            /\ triesRemaining = 0
            /\ succeeded
            /\ Returned => runOut.succeeded

\* The first attempt is healthy with two retries left: one attempt, success.
C2_Witness ==
    /\ pc = "exit"
    /\ flags.retries = 2
    /\ NumAttempts = 1
    /\ attempts[1].launched
    /\ attempts[1].exitCode \in ConfiguredHealthy
    /\ runOut.succeeded

\* C3: an attempt is classified healthy iff its exit code is a member of
\* the configured healthy-exit set, an empty set having been replaced by
\* {0} before the first attempt is evaluated.
C3_HealthyIffMember ==
    /\ \A i \in 1 .. NumAttempts :
          attempts[i].healthy <=> attempts[i].exitCode \in ConfiguredHealthy
    /\ pc = "loop" =>
          /\ config.healthyExitCodes # <<>>
          /\ flags.healthyExit = <<>> => config.healthyExitCodes = <<0>>

\* No -healthy-exit given: exit code 1 is retried, exit code 0 is healthy.
C3_Witness ==
    /\ flags.healthyExit = <<>>
    /\ NumAttempts = 2
    /\ attempts[1].exitCode = 1 /\ ~attempts[1].healthy
    /\ attempts[2].exitCode = 0 /\ attempts[2].healthy

\* C4: in every outcome, shouldPrint = FALSE implies succeeded = TRUE; a
\* run whose terminal attempt was unhealthy is surfaced whatever
\* alwaysPrint, printIfMatch and printIfNotMatch are.
C4_FailureIsSurfaced ==
    Returned =>
        /\ ~runOut.shouldPrint => runOut.succeeded
        /\ (NumAttempts > 0 /\ LastAttempt.exitCode \notin ConfiguredHealthy)
              => runOut.shouldPrint

\* A failed run is surfaced although no option asks for printing.
C4_Witness ==
    /\ Returned
    /\ NumAttempts > 0
    /\ LastAttempt.exitCode \notin ConfiguredHealthy
    /\ ~flags.alwaysPrint
    /\ flags.printIfMatch # <<>>
    /\ ~ \E p \in PatternsOf(flags.printIfMatch) : Occurs(p, LastAttempt.out)
    /\ flags.printIfNotMatch = <<>>
    /\ runOut.shouldPrint
    /\ ~runOut.succeeded

\* C5: when the terminal attempt is healthy, shouldPrint holds iff
\* alwaysPrint is set, or some printIfMatch string occurs in the final
\* attempt's output, or some printIfNotMatch string is absent from it; the
\* output of earlier attempts has no influence.
C5_SurfaceHealthyRun ==
    (Returned /\ NumAttempts > 0 /\ LastAttempt.exitCode \in ConfiguredHealthy) =>
        ( runOut.shouldPrint <=>
            \/ flags.alwaysPrint
            \/ \E p \in PatternsOf(flags.printIfMatch) :
                   Occurs(p, LastAttempt.out)
            \/ \E p \in PatternsOf(flags.printIfNotMatch) :
                   ~Occurs(p, LastAttempt.out) )

\* A failed first attempt wrote a printIfMatch string, the healthy second
\* attempt did not: the run is not surfaced.
C5_Witness ==
    /\ Returned
    /\ NumAttempts = 2
    /\ flags.printIfMatch # <<>>
    /\ \E p \in PatternsOf(flags.printIfMatch) : Occurs(p, attempts[1].out)
    /\ ~ \E p \in PatternsOf(flags.printIfMatch) : Occurs(p, attempts[2].out)
    /\ attempts[2].exitCode \in ConfiguredHealthy
    /\ ~runOut.shouldPrint

\* C6: if the child cannot be launched the invocation aborts: no further
\* attempt is made, the failure is not turned into an outcome with an
\* unhealthy exit code, and the process ends with a non-zero status.
C6_LaunchFailureAborts ==
    \A i \in 1 .. NumAttempts :
        ~attempts[i].launched =>
            /\ i = NumAttempts
            /\ pc \notin {"returned", "deliver", "surfaced"}
            /\ pc = "exit" => exitStatus # 0

\* C7: the exit code on the report's "Exit code" line is the exit code of
\* the final attempt, so whenever succeeded = TRUE the reported exit code is
\* a member of the configured healthy-exit set.
C7_ReportedExitCode ==
    (Returned /\ NumAttempts > 0) =>
        /\ runOut.output.exitCode = LastAttempt.exitCode
        /\ runOut.succeeded => runOut.output.exitCode \in ConfiguredHealthy

\* C8: for a run of one or more attempts the outcome's start time is the
\* start of the first attempt, its end time the end of the last attempt,
\* and the reported duration the difference of the two.
C8_AggregateTimes ==
    (Returned /\ NumAttempts > 0) =>
        /\ runOut.startTime = attempts[1].start
        /\ runOut.endTime = LastAttempt.end
        /\ runOut.output.duration = LastAttempt.end - attempts[1].start

\* The accumulated output as C9 describes it: the attempts' output texts in
\* attempt order, a retry marker before each of them but the first.
RECURSIVE OutputsWithMarkers(_)
OutputsWithMarkers(k) ==
    IF k = 0 THEN <<>>
    ELSE OutputsWithMarkers(k - 1)
            \o (IF k = 1 THEN <<>> ELSE << RetryMarker(config.retryDelay) >>)
            \o attempts[k].out

MarkerPositions ==
    { j \in DOMAIN programOutput :
        programOutput[j] \in { RetryMarker(d) : d \in RetryDelayValues } }

C10_SleepBetweenAttempts ==
    (flags.retryDelay > 0 /\ NumAttempts > 0) =>
        /\ attempts[1].start = 1
        /\ \A i \in 2 .. NumAttempts :
              /\ attempts[i].start = attempts[i - 1].end + flags.retryDelay
              /\ attempts[i].marker =
                    << "- Retrying after " \o ToString(flags.retryDelay)
                           \o " seconds -" >>
        /\ now = LastAttempt.end

\* Three attempts with a delay of two seconds.
C10_Witness ==
    /\ pc = "exit"
    /\ flags.retryDelay = 2
    /\ NumAttempts = 3
    /\ attempts[3].start = attempts[2].end + 2


(* ------------------- properties of the tail of main() ------------------ *)

\* executeDeliveries() was called and has returned.
DeliveriesDone == pc \in {"surfaced", "exit"} /\ stdout # <<>>

InDeliveryCfg(channel) == channel \in deliveryCfg

IsError(err) == err # NoError

AttemptedChannels == [ i \in DOMAIN deliveryLog |-> deliveryLog[i].channel ]

AttemptErrors == [ i \in DOMAIN deliveryLog |-> deliveryLog[i].err ]

\* C11: executeDeliveries() attempts every channel present in the delivery
\* configuration exactly once, in the order mail, ntfy, Discord, Slack,
\* whatever the earlier channels answered; the errors it returns are those of
\* the failed channels, one each and in that order, and there is none when
\* no channel is configured or every channel succeeded.
C11_EveryChannelInOrder ==
    DeliveriesDone =>
        /\ AttemptedChannels = SelectSeq(ChannelOrder, InDeliveryCfg)
        /\ deliveryErrs = SelectSeq(AttemptErrors, IsError)
        /\ (\A i \in DOMAIN deliveryLog : deliveryLog[i].err = NoError)
              => deliveryErrs = <<>>

\* All four channels are configured, the first and the third fail, the
\* second and the fourth are attempted all the same and succeed.
C11_Witness ==
    /\ DeliveriesDone
    /\ deliveryCfg = Channels
    /\ Len(deliveryLog) = 4
    /\ deliveryLog[1].err # NoError
    /\ deliveryLog[2].err = NoError
    /\ deliveryLog[3].err # NoError
    /\ deliveryLog[4].err = NoError
    /\ deliveryErrs = << deliveryLog[1].err, deliveryLog[3].err >>

\* C12: the report is printed and the channels are attempted only when the
\* outcome's shouldPrint is true; when it is false nothing is printed and no
\* channel is attempted, whichever channels are configured.
C12_OnlySurfacedRunsAreDelivered ==
    /\ (stdout # <<>> \/ deliveryLog # <<>> \/ deliveryErrs # <<>>)
          => runOut.shouldPrint
    /\ (pc \in {"surfaced", "exit"} /\ runOut.shouldPrint)
          => stdout = << runOut.output >>
    /\ (pc \in {"surfaced", "exit"} /\ ~runOut.shouldPrint)
          => \A i \in DOMAIN events : events[i] \in {"attempt", "log"}

\* A run that is not surfaced ends with all four channels configured and
\* none of them attempted.
C12_Witness ==
    /\ pc = "exit"
    /\ ~runOut.shouldPrint
    /\ deliveryCfg = Channels
    /\ stdout = <<>>
    /\ deliveryLog = <<>>

\* C13: with a log directory configured, a run that reaches the end of
\* main() has stored the whole report in the log file, whether or not the
\* run was surfaced and whether the child succeeded or failed.
C13_ReportIsLogged ==
    (pc = "exit" /\ logDir /\ logErr = NoError) =>
        /\ Len(logFile) >= 1
        /\ logFile[1] = runOut.output

\* A successful run that is not surfaced is logged.
C13_Witness ==
    /\ pc = "exit"
    /\ logDir
    /\ runOut.succeeded
    /\ ~runOut.shouldPrint
    /\ stdout = <<>>
    /\ logFile = << runOut.output >>


FailedAttempts == { i \in DOMAIN deliveryLog : deliveryLog[i].err # NoError }

\* The report is the first element of the log, the lines of text follow it.
HasErrorsSection ==
    \E i \in 2 .. Len(logFile) : logFile[i] = DeliveryErrorsHeader

\* C14: the stored log is the report, followed by the delivery-errors
\* section exactly when at least one channel failed; the section holds the
\* text of every delivery error.
C14_LogContent ==
    (pc = "exit" /\ logDir /\ logFile # <<>>) =>
        /\ logFile[1] = runOut.output
        /\ HasErrorsSection <=> FailedAttempts # {}
        /\ FailedAttempts = {} => logFile = << runOut.output >>
        /\ FailedAttempts # {} =>
              /\ logFile[2] = DeliveryErrorsHeader
              /\ SubSeq(logFile, 3, Len(logFile)) = SelectSeq(AttemptErrors, IsError)

\* The Discord webhook alone is configured and answers with status 500:
\* the log ends with the section and the error's text.
C14_Witness ==
    /\ pc = "exit"
    /\ deliveryCfg = {"discord"}
    /\ logFile = << runOut.output, DeliveryErrorsHeader,
                    "failed POSTing Discord webhook (500): response body" >>

EventRank(e) ==
    CASE e = "attempt" -> 1
      [] e = "print"   -> 2
      [] e = "log"     -> 4
      [] OTHER         -> 3

\* C15: within one run the attempts of the child come first, then the
\* report is printed, then the channels are attempted, and the log is
\* stored last: it is never stored before every configured channel of a
\* surfaced run was attempted.
C15_OrderOfSteps ==
    /\ \A i, j \in DOMAIN events :
          i < j => EventRank(events[i]) <= EventRank(events[j])
    /\ \A i, j \in DOMAIN events :
          (i # j /\ events[i] = events[j]) => events[i] = "attempt"
    /\ (logFile # <<>> /\ runOut.shouldPrint) =>
          /\ stdout = << runOut.output >>
          /\ AttemptedChannels = SelectSeq(ChannelOrder, InDeliveryCfg)
    /\ (stdout # <<>> \/ deliveryLog # <<>> \/ logFile # <<>>) =>
          Len(attempts) = Len(SelectSeq(events, LAMBDA e : e = "attempt"))

\* Two attempts, the report, two channels and the log, in this order.
C15_Witness ==
    /\ pc = "exit"
    /\ Len(attempts) = 2
    /\ logFile # <<>>
    /\ events = << "attempt", "attempt", "print", "deliver mail",
                   "deliver slack", "log" >>

\* C16: delivery errors do not escalate: when channels failed, the exit
\* status and the presence of the log are what the outcome of writeLogs()
\* alone makes them, as in a run whose channels all succeeded.
C16_DeliveryErrorsDoNotEscalate ==
    (pc = "exit" /\ deliveryErrs # <<>>) =>
        /\ exitStatus = (IF logErr = NoError THEN 0 ELSE 1)
        /\ (logFile # <<>>) <=>
              (logDir /\ logErr \in { writeLogsError(o) :
                                        o \in { x \in LogOutcomes : LogFileWritten(x) } })

\* Every one of the four channels failed, the log is stored and the
\* process exits with status 0.
C16_Witness ==
    /\ pc = "exit"
    /\ Len(deliveryErrs) = 4
    /\ logDir
    /\ logFile # <<>>
    /\ exitStatus = 0

\* C17: when the child was launched the process exits with status 0
\* whatever the child's exit code, and with a non-zero status exactly when
\* writeLogs() failed.
C17_ExitStatus ==
    (pc = "exit" /\ \A i \in DOMAIN attempts : attempts[i].launched) =>
        /\ exitStatus # 0 <=> logErr # NoError
        /\ logErr = NoError => exitStatus = 0

\* The child exits with the unhealthy code 1, the run has failed, the log
\* is stored and the process exits with status 0.
C17_Witness ==
    /\ pc = "exit"
    /\ Len(attempts) = 1
    /\ attempts[1].launched
    /\ attempts[1].exitCode = 1
    /\ ~runOut.succeeded
    /\ logDir
    /\ logErr = NoError
    /\ exitStatus = 0


(* ---------------- properties of the environment listing ---------------- *)

Listing == runOut.output.environment

HiddenNames == { hideEnvVars[i] : i \in DOMAIN hideEnvVars }

CensorNames == { censorEnvVars[i] : i \in DOMAIN censorEnvVars }

AlwaysCensoredNames == { SMTPPassEnvVar, NtfyAccessTokenEnvVar }

\* The value the process environment holds for a name.
RawValueOf(name) ==
    environ[CHOOSE i \in DOMAIN environ : environ[i].name = name].value

\* The rendering by length: the placeholder alone below 5 characters, the
\* first character, the placeholder and the last character from 5 on.
CensoredForm(v) ==
    IF Len(v) < MinLenForCensorHint
    THEN LengthPlaceholder(Len(v))
    ELSE << v[1] >> \o LengthPlaceholder(Len(v) - 2) \o << v[Len(v)] >>

\* C18: the value v of a variable named in RUNNER_CENSOR_ENV is listed as a
\* pure length placeholder when len(v) < 5 and as first character, length
\* placeholder, last character when len(v) >= 5; what is listed is never
\* equal to v itself.
C18_CensoredNeverRaw ==
    (Returned /\ runOut.output.hasEnvironment) =>
        \A j \in DOMAIN Listing :
            Listing[j].name \in CensorNames =>
                /\ Listing[j].value = CensoredForm(RawValueOf(Listing[j].name))
                /\ Listing[j].value # RawValueOf(Listing[j].name)

\* C19: the values of RUNNER_SMTP_PASS and RUNNER_NTFY_ACCESS_TOKEN are
\* listed in their censored rendering whatever RUNNER_CENSOR_ENV holds, also
\* when it is unset.
C19_AlwaysCensored ==
    (Returned /\ runOut.output.hasEnvironment) =>
        \A j \in DOMAIN Listing :
            Listing[j].name \in AlwaysCensoredNames =>
                Listing[j].value = CensoredForm(RawValueOf(Listing[j].name))

\* C20: a variable named in RUNNER_HIDE_ENV has no entry in the listing,
\* also when RUNNER_CENSOR_ENV names it too; with -hide-env the report has
\* no listing; a variable that is neither hidden nor censored (by
\* RUNNER_CENSOR_ENV or as one of the always censored names) has its entry
\* with the unmodified value.
C20_HiddenAndPlainVariables ==
    Returned =>
        /\ flags.hideEnv =>
              (~runOut.output.hasEnvironment /\ Listing = <<>>)
        /\ ~flags.hideEnv =>
              /\ runOut.output.hasEnvironment
              /\ \A i \in DOMAIN environ :
                    /\ environ[i].name \in HiddenNames =>
                          ~ \E j \in DOMAIN Listing :
                                Listing[j].name = environ[i].name
                    /\ environ[i].name \notin
                            (HiddenNames \cup CensorNames \cup AlwaysCensoredNames) =>
                          \E j \in DOMAIN Listing : Listing[j] = environ[i]

\* API_KEY is named in both variables and is left out; PATH is named in
\* none and is listed as it is.
C20_Witness ==
    /\ Returned
    /\ ~flags.hideEnv
    /\ hideEnvVars = << "API_KEY" >>
    /\ censorEnvVars = << "API_KEY" >>
    /\ \E i \in DOMAIN environ :
          environ[i].name = "API_KEY" /\ environ[i].value = SelfDescribingValue
    /\ ~ \E j \in DOMAIN Listing : Listing[j].name = "API_KEY"
    /\ Listing[1] = PlainEnviron[1]


(* ------------------- properties of the configuration ------------------- *)

ReportWarnings == runOut.output.setupWarnings

InWarnings(w) == \E i \in DOMAIN ReportWarnings : ReportWarnings[i] = w

\* C21: the run policy is read-only to the engine: when runner() has
\* returned, every field of runCfg and of its outputConfig, workDir and the
\* setup warnings included, has the value it had when runner() was called.
C21_PolicyIsReadOnly == Returned => config = configAtCall

\* Neither a flag nor the environment gives any of the three SMTP settings.
NoSMTPSettings ==
    /\ ~SMTPFlagGiven(setup)
    /\ Getenv(environ, SMTPUserEnvVar) = <<>>
    /\ Getenv(environ, SMTPPassEnvVar) = <<>>
    /\ Getenv(environ, SMTPHostEnvVar) = <<>>

SetupDone == pc \notin { "main", "setup" }

PolicyWarned(w) ==
    \E i \in DOMAIN config.setupWarnings : config.setupWarnings[i] = w

SMTPEnvGiven ==
    /\ Getenv(environ, SMTPUserEnvVar) # <<>>
    /\ Getenv(environ, SMTPPassEnvVar) # <<>>
    /\ Getenv(environ, SMTPHostEnvVar) # <<>>

SMTPFlagsGiven ==
    /\ setup.smtpUser # <<>>
    /\ setup.smtpPass # <<>>
    /\ setup.smtpHost # <<>>

\* C23: the three SMTP settings given through RUNNER_SMTP_USER,
\* RUNNER_SMTP_PASS and RUNNER_SMTP_HOST count like the same settings given
\* through flags: with a mailto address containing '@', mail delivery is in
\* the delivery config in both cases.
C23_EnvironmentLikeFlags ==
    (SetupDone /\ MailAddressed(setup, environ)
        /\ (SMTPEnvGiven \/ SMTPFlagsGiven))
    => "mail" \in deliveryCfg

\* C24: mail delivery is in the delivery config only if the mailto address
\* contains '@' and SMTP user, password and host are all specified; if one
\* of the three is missing, mail is not configured and a setup warning is
\* recorded.
C24_MailNeedsAllSettings ==
    SetupDone =>
      /\ "mail" \in deliveryCfg =>
            /\ ContainsChar(mailCfg.mailTo, "@")
            /\ mailCfg.smtpUser # <<>>
            /\ mailCfg.smtpPassword # <<>>
            /\ mailCfg.smtpHost # <<>>
      /\ (MailAddressed(setup, environ)
            /\ (mailCfg.smtpUser = <<>> \/ mailCfg.smtpPassword = <<>>
                   \/ mailCfg.smtpHost = <<>>)) =>
            /\ "mail" \notin deliveryCfg
            /\ PolicyWarned(MailSettingsWarning)

HomeEntries(env) == { i \in DOMAIN env : env[i].name = "HOME" }

\* C25: when an alternate identity is configured and the lookup of its home
\* directory succeeds, every attempt launches the child with exactly one
\* HOME entry, equal to that home directory, and no warning about the home
\* directory is recorded; the warning is recorded only when the lookup
\* fails.
C25_HomeOfRunAsUser ==
    (SetupDone /\ runAsUser.configured) =>
      /\ (lookup.u /\ ~lookup.err) =>
            /\ \A i \in DOMAIN attempts :
                  /\ Cardinality(HomeEntries(attempts[i].env)) = 1
                  /\ \A h \in HomeEntries(attempts[i].env) :
                        attempts[i].env[h].value = UserHomeDir
            /\ ~PolicyWarned(HomeDirWarning(runAsUser.uid))
            /\ ~PolicyWarned(HomeDirWarningWithError(runAsUser.uid))
      /\ (PolicyWarned(HomeDirWarning(runAsUser.uid))
            \/ PolicyWarned(HomeDirWarningWithError(runAsUser.uid))) =>
            lookup.err


(* --------------------- properties of the engine, II -------------------- *)

\* The last section of the report.
LastSection == runOut.output.programOutput

NoChildOutput == \A i \in DOMAIN attempts : attempts[i].captured = <<>>

\* The original statement of C26: the report ends with the marker exactly
\* when no attempt's child wrote anything.
C26_MarkerIffNoChildOutput ==
    Returned => (LastSection = << NoOutputText >> <=> NoChildOutput)

\* C26: the report ends with the "(no output produced)" marker if and only
\* if the accumulated program output, which holds the retry markers and the
\* texts of failed launches besides what the children wrote, is empty, that
\* is when there was no retry and the one child, if any, was launched and
\* wrote nothing; otherwise the report ends with the accumulated output.
C26_MarkerIffOutputEmpty ==
    Returned =>
      /\ LastSection = << NoOutputText >> <=> programOutput = <<>>
      /\ programOutput # <<>> => LastSection = programOutput
      /\ programOutput = <<>> <=>
            \/ NumAttempts = 0
            \/ /\ NumAttempts = 1
               /\ attempts[1].launched
               /\ attempts[1].captured = <<>>
      /\ LastSection = << NoOutputText >> => NoChildOutput

\* Two attempts whose children wrote nothing: the report ends with the
\* retry marker, not with the "(no output produced)" marker.
C26_Witness ==
    /\ Returned
    /\ NumAttempts = 2
    /\ NoChildOutput
    /\ \A i \in DOMAIN attempts : attempts[i].launched
    /\ LastSection = << RetryMarker(config.retryDelay) >>


(* -------------------- properties of the webhooks ----------------------- *)

\* The status a webhook channel takes for success.
ExpectedStatus(channel) ==
    IF channel = "discord" THEN StatusNoContent ELSE StatusOK

ChannelTitle(channel) == IF channel = "discord" THEN "Discord" ELSE "Slack"

WebhookAttempts ==
    { i \in DOMAIN deliveryLog : deliveryLog[i].channel \in {"discord", "slack"} }

\* The webhook answered with the status its channel expects.
Accepted(d) ==
    d.resp.kind # "transport" /\ d.resp.status = ExpectedStatus(d.channel)

\* A nil error only for the expected status.
NilOnlyWhenAccepted ==
    \A i \in WebhookAttempts :
        deliveryLog[i].err = NoError <=> Accepted(deliveryLog[i])

\* The error of a transport failure names the channel and the cause.
TransportErrorsNamed ==
    \A i \in WebhookAttempts :
        deliveryLog[i].resp.kind = "transport" =>
            deliveryLog[i].err =
                "failed POSTing " \o ChannelTitle(deliveryLog[i].channel)
                    \o " webhook: " \o CauseText

StatusAndBody(d) ==
    "failed POSTing " \o ChannelTitle(d.channel) \o " webhook ("
        \o ToString(d.resp.status) \o "): " \o ResponseBody

StatusAndReadError(d) ==
    "failed POSTing " \o ChannelTitle(d.channel) \o " webhook ("
        \o ToString(d.resp.status) \o ") and reading response body: "
        \o CauseText

\* The original statement of C27: every answer with another status gives an
\* error that names the channel and holds the status and the body.
C27_ErrorHoldsStatusAndBody ==
    /\ NilOnlyWhenAccepted
    /\ TransportErrorsNamed
    /\ \A i \in WebhookAttempts :
          (deliveryLog[i].resp.kind # "transport" /\ ~Accepted(deliveryLog[i]))
          => deliveryLog[i].err = StatusAndBody(deliveryLog[i])

\* C27: the Discord channel returns nil only for status 204 and the Slack
\* channel only for status 200; a transport error gives an error naming the
\* channel and the cause, any other status an error naming the channel and
\* holding the status, with the body of the answer when it could be read and
\* with the read error when it could not.
C27_WebhookFailuresAreErrors ==
    /\ NilOnlyWhenAccepted
    /\ TransportErrorsNamed
    /\ \A i \in WebhookAttempts :
          (deliveryLog[i].resp.kind # "transport" /\ ~Accepted(deliveryLog[i]))
          => deliveryLog[i].err =
                IF deliveryLog[i].resp.kind = "unreadable"
                THEN StatusAndReadError(deliveryLog[i])
                ELSE StatusAndBody(deliveryLog[i])

\* Discord answers 200 with an unreadable body and Slack answers 204: both
\* are errors, and both are in the errors main() gets.
C27_Witness ==
    /\ DeliveriesDone
    /\ Len(deliveryLog) = 2
    /\ deliveryLog[1].channel = "discord"
    /\ deliveryLog[1].resp = [ kind |-> "unreadable", status |-> StatusOK ]
    /\ deliveryLog[2].channel = "slack"
    /\ deliveryLog[2].resp = [ kind |-> "http", status |-> StatusNoContent ]
    /\ deliveryErrs = << StatusAndReadError(deliveryLog[1]),
                         StatusAndBody(deliveryLog[2]) >>


(* -------------------- properties of the engine, III -------------------- *)

\* C28: in every outcome runner() returns, succeeded = true implies that the
\* child of the final attempt was launched and exited with a code the user
\* configured as healthy; neither a launch failure nor an unparseable
\* -healthy-exit value makes a run succeed.
C28_SucceededMeansHealthyExit ==
    (Returned /\ runOut.succeeded) =>
      /\ NumAttempts >= 1
      /\ LastAttempt.launched
      /\ LastAttempt.exitCode \in ConfiguredHealthy

\* C29: for every value of -retries that flag parsing accepts, negative
\* ones included, the child is executed at least once before the report is
\* built.
C29_ExecutedAtLeastOnce == Returned => NumAttempts >= 1


(* ----------------------------- termination ----------------------------- *)

\* The positions of main() and runner() in program order.
PcRank(p) ==
    CASE p = "main"     -> 0
      [] p = "setup"    -> 1
      [] p = "call"     -> 2
      [] p = "loop"     -> 3
      [] p = "returned" -> 4
      [] p = "deliver"  -> 5
      [] p = "surfaced" -> 6
      [] p = "exit"     -> 7

\* One step: an iteration of the retry loop lowers triesRemaining and never
\* below zero, every other step moves forward in program order.
Progress ==
    IF pc = "loop" /\ pc' = "loop"
    THEN triesRemaining' < triesRemaining /\ triesRemaining' >= 0
    ELSE PcRank(pc') > PcRank(pc)

Times(e) == Cardinality({ i \in DOMAIN events : events[i] = e })

\* The report was printed at most once, every channel was called at most
\* once and the log was stored at most once.
AtMostOnce ==
    /\ Times("print") <= 1
    /\ \A c \in Channels : Times("deliver " \o c) <= 1
    /\ Times("log") <= 1
    /\ Len(stdout) <= 1

\* C30: when every child execution and every delivery call returns, the
\* invocation ends: every iteration of the retry loop lowers the counter of
\* remaining tries, so the loop ends after finitely many attempts, and after
\* it print, delivery and log persistence each run at most once.
C30_Terminates ==
    /\ <>(pc = "exit")
    /\ [][Progress]_vars
    /\ [](NumAttempts <= 1 + MaxRetries)
    /\ []AtMostOnce

\* A run that used every try, was printed, delivered and logged, and ended.
C30_Witness ==
    /\ pc = "exit"
    /\ flags.retries = MaxRetries
    /\ NumAttempts = 1 + MaxRetries
    /\ Times("print") = 1
    /\ Times("deliver ntfy") = 1
    /\ Times("log") = 1

====
